---- MODULE Spec2Model ----
(***************************************************************************)
(* Model of electron/native/netcatty-windows-hello/src/addon.cc: the       *)
(* WebAuthn / Windows Hello ceremonies (isAvailable, createCredential,     *)
(* getAssertion, each asynchronous and synchronous), the one-time process  *)
(* security initialization and the promise bridge.                         *)
(*                                                                         *)
(* Two specifications share the variables:                                 *)
(*   SpecOnce  NumThreads threads call EnsureComSecurityInitialized        *)
(*             concurrently (the std::call_once guard);                    *)
(*   Spec      one ceremony after the other runs through the exported      *)
(*             functions, step by step, against a nondeterministic         *)
(*             platform (window system, COM, random source, authenticator).*)
(***************************************************************************)
EXTENDS Integers, Sequences, FiniteSets, TLC

\* ------------------------------------------------------------------ bounds
\* Threads that call EnsureComSecurityInitialized concurrently (SpecOnce).
NumThreads == 3
\* Window handles the window system knows besides the desktop window.
NumWindows == 2
\* Distinct byte values and the longest credential id the platform returns.
MaxByte == 2
MaxIdLen == 2

Threads == 1..NumThreads
\* The thread of the running ceremony, a caller of the guard like the others.
JsThread == 0
Callers == {JsThread} \cup Threads
NullHwnd == 0
Hwnds == 1..NumWindows
DesktopHwnd == NumWindows + 1

\* ----------------------------------------------------------------- HRESULT
\* FAILED(hr) / SUCCEEDED(hr): S_OK and S_FALSE are the success codes used.
SUCCEEDED(hr) == hr \in {"S_OK", "S_FALSE"}
FailedOnlyAccessDenied(hr) == hr = "E_ACCESSDENIED"
FAILED(hr) == ~SUCCEEDED(hr)

\* What CoInitializeSecurity may answer.
CoInitializeSecurityResults == {"S_OK", "RPC_E_TOO_LATE", "E_ACCESSDENIED"}

\* Longest relying-party id and longest challenge given to MakeClientDataJson.
MaxRpLen == 2
MaxChallengeLen == 2

VARIABLES
  once,          \* static std::once_flag: "notyet" | "running" | "done"
  result,        \* static HRESULT result of EnsureComSecurityInitialized
  initAttempts,  \* number of CoInitializeSecurity calls made so far
  answered,      \* what CoInitializeSecurity answered ("none" before the call)
  tpc,           \* SpecOnce: position of each thread inside the guard
  tret,          \* SpecOnce: what EnsureComSecurityInitialized returned last
  pc,            \* Spec: position of the running ceremony
  req,           \* the arguments of the exported call
  hwnd,          \* ctx->parent_hwnd (async) / the local hwnd (sync)
  ctx,           \* AsyncContext: error, bool_result, buffer_result
  co,            \* ScopedCoInit of the calling thread
  webauthnHwnd,  \* the window handed to the platform call
  platform,      \* what the platform call handed back: hr and native result
  outcome,       \* the promise (async) or the return / throw (sync)
  call,          \* the platform authenticator call of this ceremony
  os,            \* window system: live windows, foreground window, attachments
  win,           \* SpecWindows: the handles seen by the window resolution and choice
  cd             \* SpecClientData: the arguments and results of MakeClientDataJson

staticVars == <<once, result, initAttempts, answered>>
threadVars == <<tpc, tret>>
cerVars == <<pc, req, hwnd, ctx, co, webauthnHwnd, platform, outcome, call, os, win, cd>>
vars == <<once, result, initAttempts, answered, tpc, tret,
          pc, req, hwnd, ctx, co, webauthnHwnd, platform, outcome, call, os, win, cd>>

\* ------------------------------------------------------------------ values
Bytes == 1..MaxByte
\* Byte strings of up to MaxIdLen bytes (credential ids).
CredIds == UNION {[1..n -> Bytes] : n \in 0..MaxIdLen}
RpIds == {"", "example.com"}

NoError == [msg |-> "", code |-> ""]
Err(m, c) == [msg |-> m, code |-> c]

NoValue == [t |-> "none", bool |-> FALSE, bytes |-> <<>>]
BoolValue(b) == [t |-> "bool", bool |-> b, bytes |-> <<>>]
BytesValue(s) == [t |-> "bytes", bool |-> FALSE, bytes |-> s]

\* The optional hwnd argument: absent, not a Buffer, or a Buffer of len bytes
\* holding the handle h.
PointerSize == 8
WindowRefs ==
  {[kind |-> "absent", len |-> 0, h |-> NullHwnd],
   [kind |-> "notbuffer", len |-> 0, h |-> NullHwnd],
   [kind |-> "buffer", len |-> 0, h |-> NullHwnd],
   [kind |-> "buffer", len |-> 4, h |-> 1]}
  \cup {[kind |-> "buffer", len |-> PointerSize, h |-> h] : h \in {NullHwnd} \cup Hwnds}

\* HWND ReadHwndFromBuffer(void* data, size_t data_len); data is null for an
\* empty Buffer. The exported functions call it only for a Buffer argument.
ReadHwndAnyLength(w) == w.h
ReadHwndFromBuffer(w) ==
  IF w.len = 0 THEN NullHwnd
  ELSE IF w.len # PointerSize /\ w.len # 8 THEN NullHwnd
  ELSE w.h

\* argc >= 4 (3), napi_is_buffer, ReadHwndFromBuffer
HwndArgument(w) == IF w.kind = "buffer" THEN ReadHwndFromBuffer(w) ELSE NullHwnd

\* A native result of the platform: PWEBAUTHN_CREDENTIAL_ATTESTATION or
\* PWEBAUTHN_ASSERTION. state: "null" | "live" | "freed"; pb: pbCredentialId is
\* not null; cb: cbCredentialId; id: the bytes at pbCredentialId.
NullNative == [state |-> "null", pb |-> FALSE, cb |-> 0, id |-> <<>>]
Attestations ==
  {NullNative}
  \cup {[state |-> "live", pb |-> TRUE, cb |-> Len(i), id |-> i] : i \in CredIds}
  \cup {[state |-> "live", pb |-> FALSE, cb |-> n, id |-> <<>>] : n \in {0, 1}}
Assertions == {NullNative, [state |-> "live", pb |-> FALSE, cb |-> 0, id |-> <<>>]}

\* What the authenticator calls may answer.
PlatformResults == {"S_OK", "NTE_USER_CANCELLED", "E_ACCESSDENIED"}

NoPlatform == [hr |-> "none", native |-> NullNative, frees |-> 0, badRead |-> FALSE]

\* WebAuthNFreeCredentialAttestation / WebAuthNFreeAssertion
FreeNative(p) ==
  [p EXCEPT !.native = [p.native EXCEPT !.state = "freed"], !.frees = p.frees + 1]

\* if (attestation) WebAuthNFreeCredentialAttestation(attestation);
FreeIfNotNullSkipped(p) == p
FreeIfNotNull(p) == IF p.native.state # "null" THEN FreeNative(p) ELSE p

\* !attestation || !attestation->pbCredentialId || attestation->cbCredentialId == 0
MissingIgnoresLength(n) == n.state = "null" \/ ~n.pb
MissingOnlyWhenNull(n) == n.state = "null"
MissingCredentialId(n) == n.state = "null" \/ ~n.pb \/ n.cb = 0

\* The bytes a read of [pbCredentialId, pbCredentialId + cbCredentialId) yields:
\* the credential id while the native result is live, anything once it is freed.
ReadCredentialId(n) == IF n.state = "live" THEN {n.id} ELSE CredIds

NoCtx == [error |-> NoError, bool_result |-> FALSE, buffer_result |-> <<>>]
NoCo == [phase |-> "none", model |-> "none", did_init |-> FALSE, uninits |-> 0]
NoOutcome == [kind |-> "none", value |-> NoValue, error |-> NoError, settles |-> 0]
NoCall == [n |-> 0, fn |-> "none", hwnd |-> NullHwnd, sec |-> "notyet",
           coInit |-> FALSE, resolved |-> FALSE]
NoOs == [live |-> {}, fg |-> NullHwnd, attached |-> <<>>, detached |-> <<>>, effects |-> {}]
NoReq == [op |-> "none", sync |-> FALSE, argsOk |-> TRUE, rpId |-> "",
          credId |-> <<>>, windowRef |-> [kind |-> "absent", len |-> 0, h |-> NullHwnd]]

\* The handles one window resolution and choice works on: the argument, what
\* GetForegroundWindow / GetActiveWindow / EnumWindows answer at resolution
\* time, the resolved hwnd, and what the two answer again at choice time.
NoWin ==
  [step |-> "none", op |-> "none", arg |-> NullHwnd, live |-> {}, fg |-> NullHwnd,
   active |-> NullHwnd, foundHwnd |-> NullHwnd, hwnd |-> NullHwnd,
   liveNow |-> {}, fgHwnd |-> NullHwnd, activeNow |-> NullHwnd,
   webauthnHwnd |-> NullHwnd]
WinInputs ==
  {[NoWin EXCEPT !.step = "in", !.arg = a, !.live = lv, !.fg = f, !.active = ac,
                 !.foundHwnd = fo] :
     a \in {NullHwnd} \cup Hwnds, lv \in SUBSET Hwnds, f \in {NullHwnd} \cup Hwnds,
     ac \in {NullHwnd} \cup Hwnds, fo \in {NullHwnd} \cup Hwnds}

\* The arguments of MakeClientDataJson. The type is "webauthn.create" or
\* "webauthn.get"; rp_id is a host name (letters, '.' and '-', here 'a', '.',
\* '-') of up to MaxRpLen units; the challenge is up to MaxChallengeLen bytes,
\* among them bytes whose base64 characters are '+' and '/'.
ClientDataTypes ==
  {<<119, 101, 98, 97, 117, 116, 104, 110, 46, 99, 114, 101, 97, 116, 101>>,
   <<119, 101, 98, 97, 117, 116, 104, 110, 46, 103, 101, 116>>}
HostnameUnits == {97, 46, 45}
ChallengeBytes == {0, 251, 255}
NoCd ==
  [step |-> "none", type |-> <<>>, rpId |-> <<>>, challenge |-> <<>>,
   first |-> <<>>, again |-> <<>>]
CdInputs ==
  {[NoCd EXCEPT !.step = "in", !.type = t, !.rpId = r, !.challenge = c] :
     t \in ClientDataTypes,
     r \in UNION {[1..n -> HostnameUnits] : n \in 0..MaxRpLen},
     c \in UNION {[1..n -> ChallengeBytes] : n \in 0..MaxChallengeLen}}

\* The credential ids a caller passes: one of each length, the empty one
\* included (the code looks at the length only and hands the bytes on).
RequestCredIds == {[i \in 1..n |-> 1] : n \in 0..MaxIdLen}

\* The arguments the exported functions can be called with.
Requests(op, sync) ==
  IF op = "isAvailable"
  THEN {[NoReq EXCEPT !.op = op, !.sync = sync]}
  ELSE {[op |-> op, sync |-> sync, argsOk |-> a, rpId |-> r, credId |-> c, windowRef |-> w] :
          a \in BOOLEAN, r \in RpIds,
          c \in (IF op = "getAssertion" THEN RequestCredIds ELSE {<<>>}),
          w \in WindowRefs}

CeremonyInitState ==
  /\ pc = "idle"
  /\ req = NoReq
  /\ hwnd = NullHwnd
  /\ ctx = NoCtx
  /\ co = NoCo
  /\ webauthnHwnd = NullHwnd
  /\ platform = NoPlatform
  /\ outcome = NoOutcome
  /\ call = NoCall
  /\ os = NoOs

\* ------------------------------------------- EnsureComSecurityInitialized
\* std::call_once: the caller that finds the flag not yet set runs the
\* callable; callers that arrive while it runs block until it has returned.
CallOnceNoGuard(o) == o # "done"
CallOnceMayRun(o) == o = "notyet"
CallOncePassive(o) == o = "done"

\* if (result == RPC_E_TOO_LATE) result = S_OK;
TooLateKept(hr) == hr
TooLateIsSuccess(hr) == IF hr = "RPC_E_TOO_LATE" THEN "S_OK" ELSE hr

\* The process security state of the spec: not-yet until the guard is done.
ProcessSecurityState == IF once = "done" THEN result ELSE "notyet"

StaticInit ==
  /\ once = "notyet"
  /\ result = "E_FAIL"
  /\ initAttempts = 0
  /\ answered = "none"

\* A thread calls EnsureComSecurityInitialized.
ThreadCall(t) ==
  /\ tpc[t] = "idle"
  /\ tpc' = [tpc EXCEPT ![t] = "enter"]
  /\ tret' = [tret EXCEPT ![t] = "none"]
  /\ UNCHANGED <<staticVars, cerVars>>

\* call_once picks this thread to run the callable.
ThreadBeginOnce(t) ==
  /\ tpc[t] = "enter"
  /\ CallOnceMayRun(once)
  /\ once' = "running"
  /\ tpc' = [tpc EXCEPT ![t] = "init"]
  /\ UNCHANGED <<result, initAttempts, answered, tret, cerVars>>

\* result = CoInitializeSecurity(...)
ThreadInit(t) ==
  /\ tpc[t] = "init"
  /\ \E hr \in CoInitializeSecurityResults : result' = hr /\ answered' = hr
  /\ initAttempts' = initAttempts + 1
  /\ tpc' = [tpc EXCEPT ![t] = "fix"]
  /\ UNCHANGED <<once, tret, cerVars>>

\* the RPC_E_TOO_LATE normalisation, then the callable returns and the flag is set
ThreadFinishOnce(t) ==
  /\ tpc[t] = "fix"
  /\ result' = TooLateIsSuccess(result)
  /\ once' = "done"
  /\ tpc' = [tpc EXCEPT ![t] = "return"]
  /\ UNCHANGED <<initAttempts, answered, tret, cerVars>>

\* call_once returns at once: the flag is already set.
ThreadSkipOnce(t) ==
  /\ tpc[t] = "enter"
  /\ CallOncePassive(once)
  /\ tpc' = [tpc EXCEPT ![t] = "return"]
  /\ UNCHANGED <<staticVars, tret, cerVars>>

\* return result;
ThreadReturn(t) ==
  /\ tpc[t] = "return"
  /\ tret' = [tret EXCEPT ![t] = result]
  /\ tpc' = [tpc EXCEPT ![t] = "idle"]
  /\ UNCHANGED <<staticVars, cerVars>>

ThreadInitState ==
  /\ tpc = [t \in Callers |-> "idle"]
  /\ tret = [t \in Callers |-> "none"]

InitOnce == StaticInit /\ ThreadInitState /\ CeremonyInitState /\ win = NoWin /\ cd = NoCd

\* The steps of one caller inside EnsureComSecurityInitialized.
GuardStep(t) ==
  \/ ThreadBeginOnce(t)
  \/ ThreadInit(t)
  \/ ThreadFinishOnce(t)
  \/ ThreadSkipOnce(t)
  \/ ThreadReturn(t)

NextOnce == \E t \in Threads : ThreadCall(t) \/ GuardStep(t)

SpecOnce == InitOnce /\ [][NextOnce]_vars

\* IsWindow(h)
IsWindow(h) == h = DesktopHwnd \/ h \in os.live

\* One platform authenticator call of this ceremony, as the platform sees it.
PlatformCall(fn, h) ==
  [n |-> call.n + 1, fn |-> fn, hwnd |-> h, sec |-> ProcessSecurityState,
   coInit |-> co.did_init, resolved |-> call.resolved]

\* ------------------------------------------------------ asynchronous bridge
\* PromiseFromWork: napi_create_promise, napi_create_async_work,
\* napi_queue_async_work.
PromiseFromWork == [NoOutcome EXCEPT !.kind = "pending"]

\* IsAvailable / CreateCredential / GetAssertion: argument checks, the hwnd
\* argument, the AsyncContext, then PromiseFromWork. The window system is in
\* some state (the windows that are live) while the ceremony runs.
CallAsync ==
  /\ pc = "idle"
  /\ \E op \in {"isAvailable", "createCredential", "getAssertion"} :
       \E r \in Requests(op, FALSE) :
         /\ req' = r
         /\ IF ~r.argsOk
            THEN /\ outcome' = [NoOutcome EXCEPT !.kind = "thrown",
                                                !.error = Err("TypeError", "")]
                 /\ hwnd' = NullHwnd
                 /\ pc' = "done"
                 /\ UNCHANGED os
            ELSE /\ outcome' = PromiseFromWork
                 /\ hwnd' = HwndArgument(r.windowRef)
                 /\ pc' = "queued"
                 /\ IF op = "isAvailable"
                    THEN UNCHANGED os
                    ELSE \E lv \in SUBSET Hwnds : os' = [NoOs EXCEPT !.live = lv]
  /\ UNCHANGED <<staticVars, threadVars, ctx, co, webauthnHwnd, platform, call, win, cd>>

\* Execute, first part: the argument checks (rp_id.empty(), credential_id.empty()).
ExecuteArgumentError(r) ==
  IF r.rpId = "" THEN Err("rpId is required", "")
  ELSE IF r.op = "getAssertion" /\ r.credId = <<>> THEN Err("credentialId is required", "")
  ELSE NoError

\* Execute on the worker thread, up to the authenticator call: dispatch on the
\* do_* flags, argument checks, GetRandomBytes.
ExecuteBegin ==
  /\ pc = "queued"
  /\ IF req.op = "isAvailable"
     THEN pc' = "x_query" /\ UNCHANGED ctx
     ELSE IF ExecuteArgumentError(req) # NoError
     THEN /\ ctx' = [ctx EXCEPT !.error = ExecuteArgumentError(req)]
          /\ pc' = "executed"
     ELSE \E randomOk \in BOOLEAN :
            IF randomOk
            THEN pc' = "x_call" /\ UNCHANGED ctx
            ELSE /\ ctx' = [ctx EXCEPT !.error =
                      IF req.op = "createCredential"
                      THEN Err("Failed to generate random bytes", "")
                      ELSE Err("Failed to generate random challenge", "")]
                 /\ pc' = "executed"
  /\ UNCHANGED <<staticVars, threadVars, req, hwnd, co, webauthnHwnd, platform, outcome,
                 call, os, win, cd>>

\* WebAuthNIsUserVerifyingPlatformAuthenticatorAvailable(&available)
ExecuteQuery ==
  /\ pc = "x_query"
  /\ call' = PlatformCall("WebAuthNIsUserVerifyingPlatformAuthenticatorAvailable", NullHwnd)
  /\ \E hr \in {"S_OK", "E_FAIL"}, available \in BOOLEAN :
       /\ platform' = [NoPlatform EXCEPT !.hr = hr]
       /\ ctx' = IF FAILED(hr)
                 THEN [ctx EXCEPT !.error =
                         Err("WebAuthNIsUserVerifyingPlatformAuthenticatorAvailable failed", hr)]
                 ELSE [ctx EXCEPT !.bool_result = available]
  /\ pc' = "executed"
  /\ UNCHANGED <<staticVars, threadVars, req, hwnd, co, webauthnHwnd, outcome, os, win, cd>>

AuthenticatorFn(op) ==
  IF op = "createCredential" THEN "WebAuthNAuthenticatorMakeCredential"
  ELSE "WebAuthNAuthenticatorGetAssertion"

NativeResults(op) == IF op = "createCredential" THEN Attestations ELSE Assertions

\* WebAuthNAuthenticatorMakeCredential(ctx->parent_hwnd, ...) /
\* WebAuthNAuthenticatorGetAssertion(ctx->parent_hwnd, ...): the blocking call.
ExecuteCall ==
  /\ pc = "x_call"
  /\ webauthnHwnd' = hwnd
  /\ call' = PlatformCall(AuthenticatorFn(req.op), hwnd)
  /\ \E hr \in PlatformResults, n \in NativeResults(req.op) :
       platform' = [NoPlatform EXCEPT !.hr = hr, !.native = n]
  /\ pc' = "x_post"
  /\ UNCHANGED <<staticVars, threadVars, req, hwnd, ctx, co, outcome, os, win, cd>>

\* Execute after the authenticator call returned: FAILED(hr), the missing
\* credential id, and the success of getAssertion.
ExecutePostRetry ==
  /\ pc = "x_post"
  /\ IF FAILED(platform.hr)
     THEN /\ platform' = FreeIfNotNull(platform)
          /\ pc' = "x_call"
          /\ UNCHANGED ctx
     ELSE /\ ctx' = [ctx EXCEPT !.bool_result = TRUE]
          /\ platform' = FreeIfNotNull(platform)
          /\ pc' = "executed"
  /\ UNCHANGED <<staticVars, threadVars, req, hwnd, co, webauthnHwnd, outcome, call, os, win, cd>>
ExecutePost ==
  /\ pc = "x_post"
  /\ IF FAILED(platform.hr)
     THEN /\ ctx' = [ctx EXCEPT !.error = Err(AuthenticatorFn(req.op) \o " failed", platform.hr)]
          /\ platform' = FreeIfNotNull(platform)
          /\ pc' = "executed"
     ELSE IF req.op = "getAssertion"
     THEN /\ ctx' = [ctx EXCEPT !.bool_result = TRUE]
          /\ platform' = FreeIfNotNull(platform)
          /\ pc' = "executed"
     ELSE IF MissingCredentialId(platform.native)
     THEN /\ ctx' = [ctx EXCEPT !.error = Err("Credential attestation missing credentialId", "")]
          /\ platform' = FreeIfNotNull(platform)
          /\ pc' = "executed"
     ELSE pc' = "x_ok1" /\ UNCHANGED <<ctx, platform>>
  /\ UNCHANGED <<staticVars, threadVars, req, hwnd, co, webauthnHwnd, outcome, call, os, win, cd>>

\* The two statements of the success path of createCredential, in program order:
\* ctx->buffer_result.assign(pbCredentialId, ...); WebAuthNFreeCredentialAttestation.
FreeThenCopy == <<"free", "copy">>
CreateSuccessSteps == <<"copy", "free">>

ExecuteSuccessStep ==
  /\ pc \in {"x_ok1", "x_ok2"}
  /\ LET step == CreateSuccessSteps[IF pc = "x_ok1" THEN 1 ELSE 2] IN
       IF step = "copy"
       THEN \E b \in ReadCredentialId(platform.native) :
              /\ ctx' = [ctx EXCEPT !.buffer_result = b]
              /\ platform' = [platform EXCEPT !.badRead = platform.native.state # "live"]
       ELSE /\ platform' = FreeNative(platform)
            /\ UNCHANGED ctx
  /\ pc' = IF pc = "x_ok1" THEN "x_ok2" ELSE "executed"
  /\ UNCHANGED <<staticVars, threadVars, req, hwnd, co, webauthnHwnd, outcome, call, os, win, cd>>

\* Complete on the caller's thread: reject with the error, or resolve with the
\* buffer if it is not empty, or resolve with the boolean.
RejectAndResolve(c, o) ==
  IF c.error # NoError
  THEN [o EXCEPT !.kind = "resolved", !.error = c.error,
                 !.value = BoolValue(c.bool_result), !.settles = o.settles + 2]
  ELSE [o EXCEPT !.kind = "resolved", !.value = BoolValue(c.bool_result),
                 !.settles = o.settles + 1]
CompleteOutcome(c, o) ==
  IF c.error # NoError
  THEN [o EXCEPT !.kind = "rejected", !.error = c.error, !.settles = o.settles + 1]
  ELSE IF c.buffer_result # <<>>
  THEN [o EXCEPT !.kind = "resolved", !.value = BytesValue(c.buffer_result),
                 !.settles = o.settles + 1]
  ELSE [o EXCEPT !.kind = "resolved", !.value = BoolValue(c.bool_result),
                 !.settles = o.settles + 1]

Complete ==
  /\ pc = "executed"
  /\ outcome' = CompleteOutcome(ctx, outcome)
  /\ pc' = "done"
  /\ UNCHANGED <<staticVars, threadVars, req, hwnd, ctx, co, webauthnHwnd, platform, call, os, win, cd>>

\* The ceremony is over; the caller may start the next one. The statics stay.
Finish ==
  /\ pc = "done"
  /\ pc' = "idle"
  /\ req' = NoReq
  /\ hwnd' = NullHwnd
  /\ ctx' = NoCtx
  /\ co' = NoCo
  /\ webauthnHwnd' = NullHwnd
  /\ platform' = NoPlatform
  /\ outcome' = NoOutcome
  /\ call' = NoCall
  /\ os' = NoOs
  /\ tret' = [tret EXCEPT ![JsThread] = "none"]
  /\ UNCHANGED <<staticVars, tpc, win, cd>>

\* ------------------------------------------------------------ synchronous
LiveWindow(lv, h) == h = DesktopHwnd \/ h \in lv

\* HWND GetValidHwndForWebAuthn(HWND hwnd): the caller's handle, the foreground
\* window, the active window, a visible top-level window of this process
\* (EnumWindows), else nullptr.
ResolveActiveBeforeForeground(h, lv, fgw, active, found) ==
  IF h # NullHwnd /\ LiveWindow(lv, h) THEN h
  ELSE IF active # NullHwnd /\ LiveWindow(lv, active) THEN active
  ELSE IF fgw # NullHwnd /\ LiveWindow(lv, fgw) THEN fgw
  ELSE IF found # NullHwnd /\ LiveWindow(lv, found) THEN found
  ELSE NullHwnd
GetValidHwndForWebAuthn(h, lv, fgw, active, found) ==
  IF h # NullHwnd /\ LiveWindow(lv, h) THEN h
  ELSE IF fgw # NullHwnd /\ LiveWindow(lv, fgw) THEN fgw
  ELSE IF active # NullHwnd /\ LiveWindow(lv, active) THEN active
  ELSE IF found # NullHwnd /\ LiveWindow(lv, found) THEN found
  ELSE NullHwnd

\* napi_throw_error / napi_throw_type_error, and the value a sync call returns
Throw(o, e) == [o EXCEPT !.kind = "thrown", !.error = e, !.settles = o.settles + 1]
Return(o, v) == [o EXCEPT !.kind = "returned", !.value = v, !.settles = o.settles + 1]

\* ~ScopedCoInit(): if (did_init) CoUninitialize();
ScopedCoInitExitAlways(c) == [c EXCEPT !.phase = "gone", !.uninits = c.uninits + 1]
ScopedCoInitExit(c) ==
  [c EXCEPT !.phase = "gone", !.uninits = IF c.did_init THEN c.uninits + 1 ELSE c.uninits]

\* IsAvailableSync / CreateCredentialSync / GetAssertionSync, up to the
\* ScopedCoInit: argument checks, the hwnd argument, GetValidHwndForWebAuthn.
CallSync ==
  /\ pc = "idle"
  /\ \E op \in {"isAvailable", "createCredential", "getAssertion"} :
       \E r \in Requests(op, TRUE) :
         /\ req' = r
         /\ IF ~r.argsOk
            THEN /\ outcome' = Throw(NoOutcome, Err("TypeError", ""))
                 /\ pc' = "done"
                 /\ UNCHANGED <<hwnd, call, os>>
            ELSE IF op = "isAvailable"
            THEN /\ pc' = "s_coinit"
                 /\ UNCHANGED <<hwnd, call, os, outcome>>
            ELSE \E lv \in SUBSET Hwnds, f, active, found \in {NullHwnd} \cup Hwnds :
                   /\ os' = [NoOs EXCEPT !.live = lv, !.fg = f]
                   /\ hwnd' = GetValidHwndForWebAuthn(HwndArgument(r.windowRef), lv, f,
                                                      active, found)
                   /\ call' = [NoCall EXCEPT !.resolved = TRUE]
                   /\ pc' = "s_coinit"
                   /\ UNCHANGED outcome
  /\ UNCHANGED <<staticVars, threadVars, ctx, co, webauthnHwnd, platform, win, cd>>

CoInitializeExResults == {"S_OK", "S_FALSE", "RPC_E_CHANGED_MODE", "E_OUTOFMEMORY"}

\* ScopedCoInit(): hr = CoInitializeEx(nullptr, COINIT_APARTMENTTHREADED). On
\* RPC_E_CHANGED_MODE the constructor goes on to the second attempt; otherwise
\* did_init = SUCCEEDED(hr).
ScopedCoInit(hr) ==
  [phase |-> IF hr = "RPC_E_CHANGED_MODE" THEN "changed" ELSE "live",
   model |-> "apartment", did_init |-> SUCCEEDED(hr), uninits |-> 0]

\* hr = CoInitializeEx(nullptr, COINIT_MULTITHREADED); did_init = SUCCEEDED(hr).
ScopedCoInitChangedMode(c, hr) ==
  [c EXCEPT !.phase = "live", !.model = "multithreaded", !.did_init = SUCCEEDED(hr)]

\* if (!co.did_init) { throw "COM initialization failed" }, else the call of
\* EnsureComSecurityInitialized begins.
SyncCoInitChecked(c) ==
  IF c.did_init
  THEN /\ co' = c
       /\ pc' = "s_sec"
       /\ tpc' = [tpc EXCEPT ![JsThread] = "enter"]
       /\ UNCHANGED outcome
  ELSE /\ co' = ScopedCoInitExit(c)
       /\ outcome' = Throw(outcome, Err("COM initialization failed", ""))
       /\ pc' = "done"
       /\ UNCHANGED tpc

\* ScopedCoInit co: the apartment-threaded attempt.
SyncCoInit ==
  /\ pc = "s_coinit"
  /\ \E hr \in CoInitializeExResults :
       LET c == ScopedCoInit(hr) IN
         IF c.phase = "changed"
         THEN /\ co' = c
              /\ pc' = "s_coinit2"
              /\ UNCHANGED <<tpc, outcome>>
         ELSE SyncCoInitChecked(c)
  /\ UNCHANGED <<staticVars, tret, req, hwnd, ctx, webauthnHwnd, platform, call, os, win, cd>>

\* ScopedCoInit co: the multithreaded attempt after RPC_E_CHANGED_MODE.
SyncCoInitChangedMode ==
  /\ pc = "s_coinit2"
  /\ \E hr \in CoInitializeExResults \ {"RPC_E_CHANGED_MODE"} :
       SyncCoInitChecked(ScopedCoInitChangedMode(co, hr))
  /\ UNCHANGED <<staticVars, tret, req, hwnd, ctx, webauthnHwnd, platform, call, os, win, cd>>

\* const HRESULT sec = EnsureComSecurityInitialized(); if (FAILED(sec)) throw.
SyncSecChecked ==
  /\ pc = "s_sec"
  /\ tpc[JsThread] = "idle"
  /\ tret[JsThread] # "none"
  /\ IF FAILED(tret[JsThread])
     THEN /\ outcome' = Throw(outcome, Err("CoInitializeSecurity failed", tret[JsThread]))
          /\ co' = ScopedCoInitExit(co)
          /\ pc' = "done"
     ELSE /\ pc' = IF req.op = "isAvailable" THEN "s_query" ELSE "s_bring"
          /\ UNCHANGED <<outcome, co>>
  /\ UNCHANGED <<staticVars, threadVars, req, hwnd, ctx, webauthnHwnd, platform, call, os, win, cd>>

\* IsAvailableSync: WebAuthNIsUserVerifyingPlatformAuthenticatorAvailable
SyncQuery ==
  /\ pc = "s_query"
  /\ call' = PlatformCall("WebAuthNIsUserVerifyingPlatformAuthenticatorAvailable", NullHwnd)
  /\ \E hr \in {"S_OK", "E_FAIL"}, available \in BOOLEAN :
       /\ platform' = [NoPlatform EXCEPT !.hr = hr]
       /\ outcome' = IF FAILED(hr)
                     THEN Throw(outcome,
                            Err("WebAuthNIsUserVerifyingPlatformAuthenticatorAvailable failed", hr))
                     ELSE Return(outcome, BoolValue(available))
  /\ co' = ScopedCoInitExit(co)
  /\ pc' = "done"
  /\ UNCHANGED <<staticVars, threadVars, req, hwnd, ctx, webauthnHwnd, os, win, cd>>

\* What a focus attempt does to the desktop: SetForegroundWindow /
\* BringWindowToTop / SetFocus on the window, and AttachThreadInput when
\* another thread's input queue is involved. os.effects keeps them for the
\* ceremony.
FocusEffects(attach) == {"foreground"} \cup (IF attach THEN {"attach"} ELSE {})

\* The input queues BringToForeground attaches, in order: the foreground
\* window's thread, then the target window's thread (each only when it is
\* another thread than the caller's).
BringAttachments(fgOther, hwndOther) ==
  (IF fgOther THEN <<"fg">> ELSE <<>>) \o (IF hwndOther THEN <<"hwnd">> ELSE <<>>)

\* BringToForeground(hwnd), up to the last SetForegroundWindow.
SyncBring ==
  /\ pc = "s_bring"
  /\ IF hwnd = NullHwnd \/ ~IsWindow(hwnd)
     THEN pc' = "s_random" /\ UNCHANGED os
     ELSE \E fgOther, hwndOther \in BOOLEAN, f \in {os.fg, hwnd} :
            /\ os.fg = NullHwnd => ~fgOther
            /\ os' = [os EXCEPT !.attached = BringAttachments(fgOther, hwndOther),
                                !.fg = f,
                                !.effects = @ \cup FocusEffects(fgOther \/ hwndOther)]
            /\ pc' = "s_detach"
  /\ UNCHANGED <<staticVars, threadVars, req, hwnd, ctx, co, webauthnHwnd, platform,
                 outcome, call, win, cd>>

\* AttachThreadInput(..., FALSE): the target window's thread first, then the
\* foreground window's thread, i.e. the latest attachment first.
DetachFirst(a) == 1
DetachNext(a) == Len(a)

\* os.detached lists the queues detached so far by this BringToForeground; it
\* is forgotten when the function returns.
SyncDetach ==
  /\ pc = "s_detach"
  /\ IF os.attached = <<>>
     THEN /\ pc' = "s_random"
          /\ os' = [os EXCEPT !.detached = <<>>]
     ELSE /\ os' = [os EXCEPT !.attached =
                      [i \in 1..(Len(os.attached) - 1) |->
                         IF i < DetachNext(os.attached) THEN os.attached[i]
                         ELSE os.attached[i + 1]],
                             !.detached = Append(os.detached,
                                                 os.attached[DetachNext(os.attached)])]
          /\ pc' = "s_detach"
  /\ UNCHANGED <<staticVars, threadVars, req, hwnd, ctx, co, webauthnHwnd, platform,
                 outcome, call, win, cd>>

\* GetRandomBytes(challenge, 32), and GetRandomBytes(userId, 32) for a creation
SyncRandom ==
  /\ pc = "s_random"
  /\ \E challengeOk, userIdOk \in BOOLEAN :
       IF ~challengeOk
       THEN /\ outcome' = Throw(outcome, Err("Failed to generate random challenge", ""))
            /\ co' = ScopedCoInitExit(co)
            /\ pc' = "done"
       ELSE IF req.op = "createCredential" /\ ~userIdOk
       THEN /\ outcome' = Throw(outcome, Err("Failed to generate random userId", ""))
            /\ co' = ScopedCoInitExit(co)
            /\ pc' = "done"
       ELSE /\ pc' = IF req.op = "createCredential" THEN "s_focus" ELSE "s_pick"
            /\ UNCHANGED <<outcome, co>>
  /\ UNCHANGED <<staticVars, threadVars, req, hwnd, ctx, webauthnHwnd, platform, call, os, win, cd>>

\* CreateCredentialSync: the window to pass. The passed hwnd if it is now the
\* foreground window, else the foreground window, else the passed hwnd, else
\* the desktop window.
PickCreateWindow(h, fgHwnd, lv) ==
  LET w == IF h # NullHwnd /\ LiveWindow(lv, h) /\ h = fgHwnd THEN h
           ELSE IF fgHwnd # NullHwnd /\ LiveWindow(lv, fgHwnd) THEN fgHwnd
           ELSE IF h # NullHwnd /\ LiveWindow(lv, h) THEN h
           ELSE NullHwnd
  IN IF w = NullHwnd \/ ~LiveWindow(lv, w) THEN DesktopHwnd ELSE w

\* CreateCredentialSync: AllowSetForegroundWindow, fgHwnd = GetForegroundWindow(),
\* and for a live hwnd the attach / SetForegroundWindow part.
SyncFocus ==
  /\ pc = "s_focus"
  /\ IF hwnd # NullHwnd /\ IsWindow(hwnd)
     THEN \E fgOther \in BOOLEAN, f \in {os.fg, hwnd} :
            /\ os.fg = NullHwnd => ~fgOther
            /\ os' = [os EXCEPT !.attached = IF fgOther THEN <<"fg">> ELSE <<>>, !.fg = f,
                                !.effects = @ \cup FocusEffects(fgOther)]
            /\ pc' = "s_focus2"
            /\ UNCHANGED webauthnHwnd
     ELSE /\ webauthnHwnd' = PickCreateWindow(hwnd, os.fg, os.live)
          /\ pc' = "s_call"
          /\ UNCHANGED os
  /\ UNCHANGED <<staticVars, threadVars, req, hwnd, ctx, co, platform, outcome, call, win, cd>>

\* the detach, Sleep(100), fgHwnd = GetForegroundWindow(), and the choice
SyncFocusPick ==
  /\ pc = "s_focus2"
  /\ os' = [os EXCEPT !.attached = <<>>]
  /\ webauthnHwnd' = PickCreateWindow(hwnd, os.fg, os.live)
  /\ pc' = "s_call"
  /\ UNCHANGED <<staticVars, threadVars, req, hwnd, ctx, co, platform, outcome, call, win, cd>>

\* GetAssertionSync: fgHwnd ? fgHwnd : hwnd, then GetActiveWindow(), then
\* GetDesktopWindow().
PickAssertionWindow(h, fgHwnd, active, lv) ==
  LET w1 == IF fgHwnd # NullHwnd THEN fgHwnd ELSE h
      w2 == IF w1 = NullHwnd \/ ~LiveWindow(lv, w1) THEN active ELSE w1
  IN IF w2 = NullHwnd \/ ~LiveWindow(lv, w2) THEN DesktopHwnd ELSE w2

SyncPick ==
  /\ pc = "s_pick"
  /\ \E active \in {NullHwnd} \cup Hwnds :
       webauthnHwnd' = PickAssertionWindow(hwnd, os.fg, active, os.live)
  /\ pc' = "s_call"
  /\ UNCHANGED <<staticVars, threadVars, req, hwnd, ctx, co, platform, outcome, call, os, win, cd>>

\* WebAuthNAuthenticatorMakeCredential(webauthnHwnd, ...) /
\* WebAuthNAuthenticatorGetAssertion(webauthnHwnd, ...)
SyncCall ==
  /\ pc = "s_call"
  /\ call' = PlatformCall(AuthenticatorFn(req.op), webauthnHwnd)
  /\ \E hr \in PlatformResults, n \in NativeResults(req.op) :
       platform' = [NoPlatform EXCEPT !.hr = hr, !.native = n]
  /\ pc' = "s_post"
  /\ UNCHANGED <<staticVars, threadVars, req, hwnd, ctx, co, webauthnHwnd, outcome, os, win, cd>>

\* after the call: FAILED(hr), the missing credential id, the assertion's success
SyncPostNullIsFalse ==
  /\ pc = "s_post"
  /\ IF FAILED(platform.hr)
     THEN outcome' = Throw(outcome, Err(AuthenticatorFn(req.op) \o " failed", platform.hr))
     ELSE outcome' = Return(outcome, BoolValue(platform.native.state # "null"))
  /\ platform' = FreeIfNotNull(platform)
  /\ co' = ScopedCoInitExit(co)
  /\ pc' = "done"
  /\ UNCHANGED <<staticVars, threadVars, req, hwnd, ctx, webauthnHwnd, call, os, win, cd>>
SyncPost ==
  /\ pc = "s_post"
  /\ IF FAILED(platform.hr)
     THEN /\ platform' = FreeIfNotNull(platform)
          /\ outcome' = Throw(outcome, Err(AuthenticatorFn(req.op) \o " failed", platform.hr))
          /\ co' = ScopedCoInitExit(co)
          /\ pc' = "done"
     ELSE IF req.op = "getAssertion"
     THEN /\ platform' = FreeIfNotNull(platform)
          /\ outcome' = Return(outcome, BoolValue(TRUE))
          /\ co' = ScopedCoInitExit(co)
          /\ pc' = "done"
     ELSE IF MissingCredentialId(platform.native)
     THEN /\ platform' = FreeIfNotNull(platform)
          /\ outcome' = Throw(outcome, Err("Credential attestation missing credentialId", ""))
          /\ co' = ScopedCoInitExit(co)
          /\ pc' = "done"
     ELSE pc' = "s_ok1" /\ UNCHANGED <<platform, outcome, co>>
  /\ UNCHANGED <<staticVars, threadVars, req, hwnd, ctx, webauthnHwnd, call, os, win, cd>>

\* napi_create_buffer_copy(cbCredentialId, pbCredentialId, ...);
\* WebAuthNFreeCredentialAttestation(attestation); return buf;
SyncCreateSuccessSteps == <<"copy", "free">>

SyncSuccessStep ==
  /\ pc \in {"s_ok1", "s_ok2"}
  /\ LET step == SyncCreateSuccessSteps[IF pc = "s_ok1" THEN 1 ELSE 2]
         last == pc = "s_ok2"
     IN /\ \E b \in ReadCredentialId(platform.native) :
             LET o == IF step = "copy" THEN [outcome EXCEPT !.value = BytesValue(b)]
                      ELSE outcome
             IN outcome' = IF last THEN Return(o, o.value) ELSE o
        /\ platform' = IF step = "copy"
                       THEN [platform EXCEPT !.badRead = platform.native.state # "live"]
                       ELSE FreeNative(platform)
        /\ co' = IF last THEN ScopedCoInitExit(co) ELSE co
        /\ pc' = IF last THEN "done" ELSE "s_ok2"
  /\ UNCHANGED <<staticVars, threadVars, req, hwnd, ctx, webauthnHwnd, call, os, win, cd>>

\* ------------------------------------------------- window resolution alone
\* hwnd = GetValidHwndForWebAuthn(hwnd) applied to the drawn handles.
WinResolve ==
  /\ win.step = "in"
  /\ win' = [win EXCEPT !.step = "resolved",
                        !.hwnd = GetValidHwndForWebAuthn(win.arg, win.live, win.fg,
                                                         win.active, win.foundHwnd)]
  /\ UNCHANGED <<staticVars, threadVars, pc, req, hwnd, ctx, co, webauthnHwnd, platform,
                 outcome, call, os, cd>>

\* Between the resolution and the choice the focus attempts run and time
\* passes: windows may have closed, and GetForegroundWindow / GetActiveWindow
\* are asked again.
WinObserve ==
  /\ win.step = "resolved"
  /\ \E op \in {"createCredential", "getAssertion"}, lv \in SUBSET win.live,
        f, ac \in {NullHwnd} \cup Hwnds :
       win' = [win EXCEPT !.step = "observed", !.op = op, !.liveNow = lv,
                          !.fgHwnd = f, !.activeNow = ac]
  /\ UNCHANGED <<staticVars, threadVars, pc, req, hwnd, ctx, co, webauthnHwnd, platform,
                 outcome, call, os, cd>>

\* CreateCredentialSync: the choice of webauthnHwnd
WinPickCreate ==
  /\ win.step = "observed"
  /\ win.op = "createCredential"
  /\ win' = [win EXCEPT !.step = "picked",
                        !.webauthnHwnd = PickCreateWindow(win.hwnd, win.fgHwnd, win.liveNow)]
  /\ UNCHANGED <<staticVars, threadVars, pc, req, hwnd, ctx, co, webauthnHwnd, platform,
                 outcome, call, os, cd>>

\* GetAssertionSync: the choice of webauthnHwnd
WinPickAssertion ==
  /\ win.step = "observed"
  /\ win.op = "getAssertion"
  /\ win' = [win EXCEPT !.step = "picked",
                        !.webauthnHwnd = PickAssertionWindow(win.hwnd, win.fgHwnd,
                                                            win.activeNow, win.liveNow)]
  /\ UNCHANGED <<staticVars, threadVars, pc, req, hwnd, ctx, co, webauthnHwnd, platform,
                 outcome, call, os, cd>>

InitWindows ==
  StaticInit /\ ThreadInitState /\ CeremonyInitState /\ win \in WinInputs /\ cd = NoCd

NextWindows ==
  \/ WinResolve
  \/ WinObserve
  \/ WinPickCreate
  \/ WinPickAssertion

SpecWindows == InitWindows /\ [][NextWindows]_vars

\* ------------------------------------------------------ client data alone
\* Strings are sequences of code units: bytes for std::string and
\* std::vector<uint8_t>, 16-bit units for std::wstring.

\* constexpr const wchar_t* kOriginPrefix = L"https://";
kOriginPrefix == <<104, 116, 116, 112, 115, 58, 47, 47>>

\* WideCharToMultiByte(CP_UTF8, ...) on one unit (no surrogate pairs occur).
Utf8OfUnit(u) ==
  IF u < 128 THEN <<u>>
  ELSE IF u < 2048 THEN <<192 + (u \div 64), 128 + (u % 64)>>
  ELSE <<224 + (u \div 4096), 128 + ((u \div 64) % 64), 128 + (u % 64)>>

RECURSIVE WideToUtf8(_)
\* std::string WideToUtf8(const std::wstring& w)
WideToUtf8(w) ==
  IF w = <<>> THEN <<>>
  ELSE Utf8OfUnit(w[1]) \o WideToUtf8(SubSeq(w, 2, Len(w)))

\* The base64 alphabet: A-Z, a-z, 0-9, '+', '/'.
Base64Char(i) ==
  IF i < 26 THEN 65 + i
  ELSE IF i < 52 THEN 97 + (i - 26)
  ELSE IF i < 62 THEN 48 + (i - 52)
  ELSE IF i = 62 THEN 43
  ELSE 47

RECURSIVE Base64(_)
\* CryptBinaryToStringA(..., CRYPT_STRING_BASE64 | CRYPT_STRING_NOCRLF, ...):
\* three bytes give four characters, the last group is padded with '='.
Base64(d) ==
  IF d = <<>> THEN <<>>
  ELSE IF Len(d) = 1
  THEN <<Base64Char(d[1] \div 4), Base64Char((d[1] % 4) * 16), 61, 61>>
  ELSE IF Len(d) = 2
  THEN <<Base64Char(d[1] \div 4), Base64Char((d[1] % 4) * 16 + (d[2] \div 16)),
         Base64Char((d[2] % 16) * 4), 61>>
  ELSE <<Base64Char(d[1] \div 4), Base64Char((d[1] % 4) * 16 + (d[2] \div 16)),
         Base64Char((d[2] % 16) * 4 + (d[3] \div 64)), Base64Char(d[3] % 64)>>
       \o Base64(SubSeq(d, 4, Len(d)))

\* for (auto& ch : base64) { '+' -> '-', '/' -> '_' }
Base64UrlTransform(s) ==
  [i \in 1..Len(s) |-> IF s[i] = 43 THEN 45 ELSE IF s[i] = 47 THEN 95 ELSE s[i]]

RECURSIVE StripPadding(_)
\* while (!base64.empty() && base64.back() == '=') base64.pop_back();
StripPadding(s) ==
  IF s # <<>> /\ s[Len(s)] = 61 THEN StripPadding(SubSeq(s, 1, Len(s) - 1)) ELSE s

\* std::string Base64UrlEncode(const std::vector<uint8_t>& data); the two
\* CryptBinaryToStringA calls are given valid arguments and succeed.
Base64UrlEncode(data) ==
  IF data = <<>> THEN <<>> ELSE StripPadding(Base64UrlTransform(Base64(data)))

\* "type":"  "challenge":"  "origin":"  "crossOrigin":false
JsonTypeKey == <<34, 116, 121, 112, 101, 34, 58, 34>>
JsonChallengeKey == <<34, 99, 104, 97, 108, 108, 101, 110, 103, 101, 34, 58, 34>>
JsonOriginKey == <<34, 111, 114, 105, 103, 105, 110, 34, 58, 34>>
JsonCrossOrigin ==
  <<34, 99, 114, 111, 115, 115, 79, 114, 105, 103, 105, 110, 34, 58,
    102, 97, 108, 115, 101>>

\* The four json += lines of MakeClientDataJson, in program order.
OriginBeforeChallenge(type, challengeB64, origin) ==
  <<JsonTypeKey \o type \o <<34>>,
    JsonOriginKey \o origin \o <<34>>,
    JsonChallengeKey \o challengeB64 \o <<34>>,
    JsonCrossOrigin>>
ClientDataMembers(type, challengeB64, origin) ==
  <<JsonTypeKey \o type \o <<34>>,
    JsonChallengeKey \o challengeB64 \o <<34>>,
    JsonOriginKey \o origin \o <<34>>,
    JsonCrossOrigin>>

\* std::vector<uint8_t> MakeClientDataJson(type, rpId, challenge)
MakeClientDataJson(type, rpId, challenge) ==
  LET challengeB64 == Base64UrlEncode(challenge)
      origin == WideToUtf8(kOriginPrefix \o rpId)
      m == ClientDataMembers(type, challengeB64, origin)
  IN <<123>> \o m[1] \o <<44>> \o m[2] \o <<44>> \o m[3] \o <<44>> \o m[4] \o <<125>>

\* const auto clientDataJson = MakeClientDataJson("webauthn.create" /
\* "webauthn.get", rp_id, challenge) of one ceremony
BuildClientData ==
  /\ cd.step = "in"
  /\ cd' = [cd EXCEPT !.step = "built",
                      !.first = MakeClientDataJson(cd.type, cd.rpId, cd.challenge)]
  /\ UNCHANGED <<staticVars, threadVars, pc, req, hwnd, ctx, co, webauthnHwnd, platform,
                 outcome, call, os, win>>

\* the same call made by a later ceremony with the same arguments
BuildClientDataAgain ==
  /\ cd.step = "built"
  /\ cd' = [cd EXCEPT !.step = "rebuilt",
                      !.again = MakeClientDataJson(cd.type, cd.rpId, cd.challenge)]
  /\ UNCHANGED <<staticVars, threadVars, pc, req, hwnd, ctx, co, webauthnHwnd, platform,
                 outcome, call, os, win>>

InitClientData ==
  StaticInit /\ ThreadInitState /\ CeremonyInitState /\ win = NoWin /\ cd \in CdInputs

NextClientData ==
  \/ BuildClientData
  \/ BuildClientDataAgain

SpecClientData == InitClientData /\ [][NextClientData]_vars

\* ------------------------------------------------------- the whole program
Init == StaticInit /\ ThreadInitState /\ CeremonyInitState /\ win = NoWin /\ cd = NoCd

Next ==
  \/ CallAsync
  \/ ExecuteBegin
  \/ ExecuteQuery
  \/ ExecuteCall
  \/ ExecutePost
  \/ ExecuteSuccessStep
  \/ Complete
  \/ CallSync
  \/ SyncCoInit
  \/ SyncCoInitChangedMode
  \/ GuardStep(JsThread)
  \/ SyncSecChecked
  \/ SyncQuery
  \/ SyncBring
  \/ SyncDetach
  \/ SyncRandom
  \/ SyncFocus
  \/ SyncFocusPick
  \/ SyncPick
  \/ SyncCall
  \/ SyncPost
  \/ SyncSuccessStep
  \/ Finish

Spec == Init /\ [][Next]_vars

\* Execute and Complete are scheduled by the runtime (the worker pool runs
\* queued work, the event loop runs the completion callback) and the blocking
\* platform call returns.
NextBridge ==
  \/ CallAsync
  \/ ExecuteBegin
  \/ ExecuteQuery
  \/ ExecuteCall
  \/ ExecutePost
  \/ ExecuteSuccessStep
  \/ Complete
  \/ Finish

SpecBridge ==
  /\ Init
  /\ [][NextBridge]_vars
  /\ WF_vars(ExecuteBegin)
  /\ WF_vars(ExecuteQuery)
  /\ WF_vars(ExecuteCall)
  /\ WF_vars(ExecutePost)
  /\ WF_vars(ExecuteSuccessStep)
  /\ WF_vars(Complete)

\* ------------------------------------------------------------------ claims
AuthenticatorCalled ==
  call.n > 0 /\ call.fn \in {"WebAuthNAuthenticatorMakeCredential",
                             "WebAuthNAuthenticatorGetAssertion"}
Failed == outcome.kind \in {"rejected", "thrown"}
Succeeded == outcome.kind \in {"resolved", "returned"}

\* C1: N threads call EnsureComSecurityInitialized concurrently:
\* CoInitializeSecurity is attempted at most once, and exactly once by the time
\* any caller has returned; every caller returns the value the guard ended
\* with, so all callers return the same result; and the process security state,
\* once it has left not-yet, never changes.
C1_OneAttemptOneResult ==
  /\ [](/\ initAttempts <= 1
        /\ \A t \in Callers :
             tret[t] # "none" =>
               /\ once = "done"
               /\ initAttempts = 1
               /\ tret[t] = ProcessSecurityState
        /\ \A t, u \in Callers :
             (tret[t] # "none" /\ tret[u] # "none") => tret[t] = tret[u])
  /\ [][ProcessSecurityState # "notyet" => ProcessSecurityState' = ProcessSecurityState]_vars

C1_AllReturned == \A t \in Threads : tret[t] # "none"

\* C2: every create / get ceremony makes its platform authenticator call only
\* after the process security initialization has completed.
C2_SecurityBeforeCall == AuthenticatorCalled => call.sec # "notyet"

\* C3: once the one-time initialization has ended in failure it is never
\* attempted again, and no ceremony calls the platform authenticator.
C3_FailFastAfterFailedInit ==
  /\ initAttempts <= 1
  /\ AuthenticatorCalled => call.sec \in {"notyet", "S_OK"}

\* C4: the window handed to the platform authenticator has gone through
\* GetValidHwndForWebAuthn, and is never a handle that is not a live window.
C4_WindowResolvedBeforeCall ==
  AuthenticatorCalled =>
    /\ call.resolved
    /\ call.hwnd = NullHwnd \/ IsWindow(call.hwnd)

\* The call ended before the argument could matter: the per-thread COM
\* initialization, the security initialization or the random source failed.
EnvironmentFailure ==
  outcome.error.msg \in {"COM initialization failed", "CoInitializeSecurity failed",
                         "Failed to generate random challenge",
                         "Failed to generate random userId",
                         "Failed to generate random bytes"}

\* C5: createCredential with an empty relyingPartyId never calls the platform
\* authenticator and always fails, with the invalid-argument error unless the
\* environment (COM, security context, random source) failed first.
C5_EmptyRpIdRejected ==
  (req.op = "createCredential" /\ req.argsOk /\ req.rpId = "") =>
    /\ ~AuthenticatorCalled
    /\ pc = "done" =>
         /\ Failed
         /\ EnvironmentFailure \/ outcome.error.msg = "rpId is required"

\* C6: getAssertion with an empty relyingPartyId or an empty credentialId never
\* calls the platform authenticator and always fails, with an invalid-argument
\* error unless the environment (COM, security context, random source) failed
\* first.
C6_EmptyAssertionArgsRejected ==
  (req.op = "getAssertion" /\ req.argsOk /\ (req.rpId = "" \/ req.credId = <<>>)) =>
    /\ ~AuthenticatorCalled
    /\ pc = "done" =>
         /\ Failed
         /\ \/ EnvironmentFailure
            \/ outcome.error.msg \in {"rpId is required", "credentialId is required"}

\* C7: a ceremony submitted through the asynchronous bridge is eventually
\* settled, and settled exactly once: its promise is never settled twice, and
\* when the ceremony is over it is either resolved with a value and no error or
\* rejected with an error and no value.
C7_SettledExactlyOnce ==
  /\ (outcome.kind = "pending") ~> (outcome.kind \in {"resolved", "rejected"})
  /\ [](outcome.settles <= 1)
  /\ []((pc = "done" /\ ~req.sync /\ req.argsOk) =>
          /\ outcome.settles = 1
          /\ \/ outcome.kind = "resolved" /\ outcome.error = NoError /\ outcome.value # NoValue
             \/ outcome.kind = "rejected" /\ outcome.error # NoError /\ outcome.value = NoValue)

C7_RejectedOnce ==
  pc = "done" /\ outcome.kind = "rejected" /\ req.op = "createCredential"
  /\ outcome.error.code = "NTE_USER_CANCELLED" /\ outcome.settles = 1

\* C8: a native result the platform call handed back as non-null has been
\* released exactly once when the ceremony reaches its outcome, on every path
\* of create and get in both variants; a null result is never released and
\* nothing is released twice.
C8_NativeReleasedOnce ==
  /\ platform.frees <= 1
  /\ platform.native.state = "null" => platform.frees = 0
  /\ platform.native.state = "freed" => platform.frees = 1
  /\ pc \in {"executed", "done"} => platform.native.state # "live"

C8_ReleasedOnFailure ==
  /\ pc = "done" /\ AuthenticatorCalled /\ platform.hr = "E_ACCESSDENIED"
  /\ platform.native.state = "freed" /\ platform.frees = 1

\* The platform reported success without a usable credential id: no
\* attestation, no credential id pointer, or a length of zero.
CredentialIdAbsent ==
  \/ platform.native.state = "null"
  \/ ~platform.native.pb
  \/ platform.native.cb = 0

\* C9: when the platform create call succeeds with a non-empty credential id,
\* createCredential completes with exactly those bytes, and the bytes were read
\* while the native attestation was still live.
C9_CredentialIdCopied ==
  (/\ pc = "done" /\ req.op = "createCredential" /\ AuthenticatorCalled
   /\ platform.hr = "S_OK" /\ ~CredentialIdAbsent) =>
    /\ Succeeded
    /\ outcome.value = BytesValue(platform.native.id)
    /\ ~platform.badRead

C9_CreateSucceeded ==
  /\ pc = "done" /\ req.op = "createCredential" /\ Succeeded
  /\ Len(outcome.value.bytes) = MaxIdLen /\ platform.native.state = "freed"

\* C10: when the platform create call reports success but the attestation is
\* absent, or its credential id pointer is absent, or its length is zero,
\* createCredential fails with the missing-credential-id error, which is not
\* the platform-call-failed error.
C10_MissingCredentialIdFails ==
  (/\ pc = "done" /\ req.op = "createCredential" /\ AuthenticatorCalled
   /\ platform.hr = "S_OK" /\ CredentialIdAbsent) =>
    /\ Failed
    /\ outcome.error = Err("Credential attestation missing credentialId", "")
    /\ outcome.error.msg # AuthenticatorFn(req.op) \o " failed"
    /\ outcome.value = NoValue

C10_MissingPointerSeen ==
  /\ pc = "done" /\ req.op = "createCredential" /\ platform.hr = "S_OK"
  /\ platform.native.state = "freed" /\ ~platform.native.pb /\ platform.native.cb = 1
  /\ Failed

\* C11: when the authenticator call of a create or get ceremony returns a
\* failure code, the finished ceremony has failed with the error
\* "<function> failed" carrying exactly that code, and the caller holds no
\* result value: neither credential bytes nor a boolean.
PlatformFailureCodes == {"NTE_USER_CANCELLED", "E_ACCESSDENIED"}
C11_PlatformFailureReported ==
  (pc = "done" /\ AuthenticatorCalled /\ platform.hr \in PlatformFailureCodes)
    => /\ Failed
       /\ outcome.error.msg = call.fn \o " failed"
       /\ outcome.error.code = platform.hr
       /\ outcome.value = NoValue
       /\ outcome.settles = 1
C11_CancelledReported ==
  /\ pc = "done"
  /\ AuthenticatorCalled
  /\ platform.hr = "NTE_USER_CANCELLED"
  /\ outcome.kind = "rejected"
  /\ outcome.error.code = "NTE_USER_CANCELLED"

\* C12: within one invocation the platform is called at most once: the call
\* record, once written, is not written again before the next invocation
\* starts; and a ceremony that has completed or failed keeps its outcome and
\* its call record until the next invocation starts (pc' = "idle").
C12_SingleAttemptTerminalFinal ==
  [][ /\ call'.n <= 1
      /\ (call.n = 1 /\ pc' # "idle") => call' = call
      /\ (pc = "done" /\ pc' # "idle")
           => (pc' = "done" /\ outcome' = outcome /\ call' = call /\ platform' = platform)
    ]_vars
C12_FailedAfterOneCall ==
  /\ pc = "done"
  /\ AuthenticatorCalled
  /\ call.n = 1
  /\ outcome.kind = "thrown"
  /\ outcome.error.code = "E_ACCESSDENIED"
  /\ platform.frees = 1

\* C13: the window resolver returns the first live window among the caller's
\* handle, the foreground window, the active window and the visible top-level
\* window of the process, in this order, and null only when none of the four
\* is a live window; so a dead or absent caller handle with a live foreground
\* window gives the foreground window.
ResolverCandidates == <<win.arg, win.fg, win.active, win.foundHwnd>>
LiveCandidates == {i \in 1..4 : ResolverCandidates[i] \in win.live}
C13_FirstLiveCandidate ==
  win.step = "resolved"
    => /\ LiveCandidates = {} => win.hwnd = NullHwnd
       /\ LiveCandidates # {} =>
            \E i \in LiveCandidates :
              /\ \A j \in LiveCandidates : i <= j
              /\ win.hwnd = ResolverCandidates[i]
       /\ (win.arg \notin win.live /\ win.fg \in win.live) => win.hwnd = win.fg
C13_DeadHandleLiveForeground ==
  /\ win.step = "resolved"
  /\ win.arg \notin win.live
  /\ win.fg \in win.live
  /\ win.active \in win.live
  /\ win.active # win.fg
  /\ win.hwnd = win.fg

\* C14: in a creation ceremony the window handed to the platform call is the
\* caller's handle if it is live and equals the foreground window observed
\* after the focus attempt, otherwise the foreground window if live, otherwise
\* the caller's handle if live, otherwise the desktop window; it is never null.
CreationWindowExpected ==
  IF hwnd \in os.live /\ hwnd = os.fg THEN hwnd
  ELSE IF os.fg \in os.live THEN os.fg
  ELSE IF hwnd \in os.live THEN hwnd
  ELSE DesktopHwnd
C14_CreationWindowChoice ==
  (call.n > 0 /\ call.fn = "WebAuthNAuthenticatorMakeCredential")
    => /\ call.hwnd = CreationWindowExpected
       /\ call.hwnd # NullHwnd

\* C15: in an assertion ceremony the window handed to the platform call is the
\* foreground window when there is a live one, otherwise the active window
\* when there is a live one, otherwise the desktop window; no other handle is
\* chosen in between.
C15_AssertionWindowChoice ==
  (win.step = "picked" /\ win.op = "getAssertion")
    => win.webauthnHwnd =
         (IF win.fgHwnd \in win.liveNow THEN win.fgHwnd
          ELSE IF win.activeNow \in win.liveNow THEN win.activeNow
          ELSE DesktopHwnd)

\* C16: every input-queue attachment made while a window is forced to the
\* foreground is detached before the forcing step is left (outside the
\* forcing steps nothing is attached); the detachments undo the attachments
\* latest first (each detachment removes the last attachment still in place,
\* so the attachments left followed by the detachments read backwards are the
\* attachments in the order they were made); and when the target handle is
\* null or not a live window no attachment is made.
AttachOrders == {<<>>, <<"fg">>, <<"hwnd">>, <<"fg", "hwnd">>}
Reversed(q) == [i \in 1..Len(q) |-> q[Len(q) + 1 - i]]
C16_AttachmentsUndoneInReverse ==
  [][ /\ pc' \notin {"s_detach", "s_focus2"} => os'.attached = <<>>
      /\ pc' \in {"s_detach", "s_focus2"} =>
           (os'.attached \o Reversed(os'.detached)) \in AttachOrders
      /\ Len(os'.attached) < Len(os.attached) =>
           os'.attached = SubSeq(os.attached, 1, Len(os.attached) - 1)
      /\ (pc \in {"s_bring", "s_focus"} /\ hwnd \notin os.live) => os'.attached = <<>>
    ]_vars
C16_BothDetached ==
  /\ pc = "s_detach"
  /\ os.attached = <<>>
  /\ os.detached = <<"hwnd", "fg">>

\* C17: the apartment initialization of a synchronous ceremony is scoped: when
\* the call has ended, whatever the exit path, the apartment has been torn
\* down exactly once if this call's initialization succeeded and not at all
\* if it failed; the apartment-threaded model is the first one attempted, and
\* the multithreaded model is attempted only right after the apartment-threaded
\* attempt was rejected with RPC_E_CHANGED_MODE.
C17_ScopedApartment ==
  [][ /\ (pc' = "done" /\ req'.sync /\ req'.argsOk) => co'.phase = "gone"
      /\ (pc' = "done" /\ co'.phase # "none")
           => /\ co'.phase = "gone"
              /\ co'.uninits = (IF co'.did_init THEN 1 ELSE 0)
      /\ co'.uninits <= 1
      /\ (co.phase = "none" /\ co'.phase # "none") => co'.model = "apartment"
      /\ (co'.model = "multithreaded" /\ co.model # "multithreaded")
           => (co.phase = "changed" /\ co.model = "apartment")
      /\ co'.phase = "changed" => ~co'.did_init
    ]_vars
C17_TornDownAfterFallback ==
  /\ pc = "done"
  /\ Failed
  /\ co.model = "multithreaded"
  /\ co.did_init
  /\ co.uninits = 1

\* C18: whichever thread makes the platform authenticator call of a ceremony
\* (the calling thread of a synchronous export, the worker thread of the
\* asynchronous bridge), that thread's own apartment initialization has been
\* performed, and has succeeded, before the call.
C18_ApartmentBeforeCall ==
  AuthenticatorCalled => (call.coInit /\ co.phase # "none")

\* C19: when CoInitializeSecurity answered RPC_E_TOO_LATE, the guard ends with
\* success, every caller of EnsureComSecurityInitialized (the first and the
\* later ones) is returned success, no ceremony fails with "CoInitializeSecurity
\* failed", and a ceremony that has checked the result goes on towards its
\* platform call.
C19_TooLateIsSuccess ==
  [][ answered' = "RPC_E_TOO_LATE"
        => /\ once' = "done" => result' = "S_OK"
           /\ \A t \in Callers : tret'[t] \in {"none", "S_OK"}
           /\ outcome'.error.msg # "CoInitializeSecurity failed"
           /\ (pc = "s_sec" /\ pc' # "s_sec") => pc' \in {"s_query", "s_bring"}
           /\ call'.n > 0 => call'.sec \in {"S_OK", "notyet"}
    ]_vars
C19_CeremonyProceeds ==
  /\ answered = "RPC_E_TOO_LATE"
  /\ req.sync
  /\ AuthenticatorCalled
  /\ call.sec = "S_OK"
  /\ tret[JsThread] = "S_OK"
  /\ Succeeded

\* C20: a finished availability probe, asynchronous or synchronous, has asked
\* the platform whatever the process security state is, has completed with a
\* boolean and without error whenever the platform query succeeded, and has
\* resolved no window. (A probe that ended because the calling thread's
\* apartment initialization failed is left aside.)
C20_ProbeNeedsNoSecurityState ==
  (pc = "done" /\ req.op = "isAvailable"
     /\ outcome.error.msg # "COM initialization failed")
    => /\ call.n = 1
       /\ call.fn = "WebAuthNIsUserVerifyingPlatformAuthenticatorAvailable"
       /\ platform.hr = "S_OK" => (Succeeded /\ outcome.value.t = "bool")
       /\ outcome.error.msg # "CoInitializeSecurity failed"
       /\ ~call.resolved
       /\ call.hwnd = NullHwnd

\* C21: a window reference that is absent, is not a Buffer, or is a Buffer of
\* a length other than the pointer size or 8 is no hint: the call that submits
\* the ceremony raises no error and leaves the ceremony where a call without
\* window reference leaves it (the asynchronous ceremony queued with a null
\* parent window; the synchronous one with the window the resolver gives for
\* a null handle).
NoHint(w) == w.kind # "buffer" \/ (w.len # PointerSize /\ w.len # 8)
C21_MalformedWindowRefIsNoHint ==
  [][ (pc = "idle" /\ pc' # "idle" /\ req'.op # "isAvailable" /\ req'.argsOk
         /\ NoHint(req'.windowRef))
        => /\ outcome'.error = NoError
           /\ IF req'.sync
              THEN /\ pc' = "s_coinit"
                   /\ \E a, fo \in {NullHwnd} \cup Hwnds :
                        hwnd' = GetValidHwndForWebAuthn(NullHwnd, os'.live, os'.fg, a, fo)
              ELSE /\ pc' = "queued"
                   /\ hwnd' = NullHwnd
    ]_vars
C21_ShortBufferCeremonyDone ==
  /\ req.windowRef.kind = "buffer"
  /\ req.windowRef.len = 4
  /\ req.windowRef.h # NullHwnd
  /\ req.sync
  /\ AuthenticatorCalled
  /\ Succeeded

\* C22: a failure reaches the caller through the channel a success of the same
\* variant uses: a failed asynchronous ceremony, argument errors included, has
\* rejected its promise; a failed synchronous ceremony has thrown; and a
\* ceremony whose arguments were wrong or whose platform call failed has not
\* completed successfully.
C22_FailureOnSuccessChannel ==
  pc = "done"
    => /\ (~req.sync /\ Failed) => outcome.kind = "rejected"
       /\ (req.sync /\ Failed) => outcome.kind = "thrown"
       /\ (~req.argsOk \/ platform.hr \in PlatformFailureCodes \cup {"E_FAIL"}) => Failed

\* C23: when the random source fails in a create or get ceremony of either
\* variant, the ceremony fails with the randomness error, the platform
\* authenticator has not been called, and nothing has been done to the desktop
\* by then: no window was forced to the foreground and no input queue was
\* attached.
RandomnessFailure ==
  outcome.error.msg \in {"Failed to generate random challenge",
                         "Failed to generate random userId",
                         "Failed to generate random bytes"}
C23_RandomFailureNoSideEffect ==
  (pc = "done" /\ RandomnessFailure)
    => /\ Failed
       /\ call.n = 0
       /\ os.effects = {}
       /\ os.attached = <<>>

\* C24: for fixed type, relying-party id and challenge, MakeClientDataJson
\* gives the same bytes on every call; read back as a JSON object the bytes
\* have exactly four members, named type, challenge, origin and crossOrigin in
\* this order; the type is the one given, the origin is the string "https://"
\* followed by the relying-party id, and crossOrigin is the literal false.
ByteAt(doc, i) == IF i \in 1..Len(doc) THEN doc[i] ELSE -1
RECURSIVE ScanTo(_, _, _)
ScanTo(doc, i, stops) ==
  IF i > Len(doc) \/ doc[i] \in stops THEN i ELSE ScanTo(doc, i + 1, stops)
BadMember == [key |-> <<>>, kind |-> "bad", value |-> <<>>]
RECURSIVE ReadMembers(_, _)
ReadMembers(doc, i) ==
  IF ByteAt(doc, i) # 34 THEN <<BadMember>>
  ELSE
    LET kEnd == ScanTo(doc, i + 1, {34})
        v == kEnd + 2
        isString == ByteAt(doc, v) = 34
        vEnd == IF isString THEN ScanTo(doc, v + 1, {34}) ELSE ScanTo(doc, v, {44, 125})
        next == IF isString THEN vEnd + 1 ELSE vEnd
        m == [key |-> SubSeq(doc, i + 1, kEnd - 1),
              kind |-> IF isString THEN "string" ELSE "literal",
              value |-> IF isString THEN SubSeq(doc, v + 1, vEnd - 1)
                        ELSE SubSeq(doc, v, vEnd - 1)]
    IN IF ByteAt(doc, kEnd + 1) # 58 THEN <<BadMember>>
       ELSE IF ByteAt(doc, next) = 44 THEN <<m>> \o ReadMembers(doc, next + 1)
       ELSE IF ByteAt(doc, next) = 125 /\ next = Len(doc) THEN <<m>>
       ELSE <<m, BadMember>>
ReadDocument(doc) == IF ByteAt(doc, 1) = 123 THEN ReadMembers(doc, 2) ELSE <<BadMember>>
C25_PhasesInOrder ==
  /\ call.resolved => tret[JsThread] = "S_OK"
  /\ AuthenticatorCalled => (call.resolved /\ call.sec = "S_OK")

\* C26: the promise of an asynchronous ceremony is resolved with a value of
\* the type of its operation: a creation only with credential-id bytes, and
\* these are not empty, never with a boolean; a probe or an assertion only
\* with a boolean, never with bytes; and a value is chosen only when the error
\* field of the context is empty.
C26_ResolvedValueHasOperationType ==
  (~req.sync /\ outcome.kind = "resolved")
    => /\ ctx.error = NoError
       /\ req.op = "createCredential"
            => (outcome.value.t = "bytes" /\ outcome.value.bytes # <<>>
                /\ outcome.value.bytes = ctx.buffer_result)
       /\ req.op \in {"isAvailable", "getAssertion"}
            => (outcome.value.t = "bool" /\ outcome.value.bytes = <<>>
                /\ ctx.buffer_result = <<>>)
C26_CreationResolvedWithBytes ==
  /\ pc = "done"
  /\ ~req.sync
  /\ req.op = "createCredential"
  /\ outcome.kind = "resolved"
  /\ outcome.value.t = "bytes"
  /\ Len(outcome.value.bytes) = MaxIdLen

\* C27: a finished getAssertion, synchronous or asynchronous, never completes
\* with false: it completes with true exactly when
\* WebAuthNAuthenticatorGetAssertion was called and returned a success status,
\* whether or not an assertion was handed back, and in every other case it
\* fails with an error.
C27_AssertionTrueOrError ==
  (pc = "done" /\ req.op = "getAssertion")
    => LET called == call.n > 0 /\ call.fn = "WebAuthNAuthenticatorGetAssertion"
           ok == called /\ platform.hr = "S_OK"
       IN /\ outcome.value # BoolValue(FALSE)
          /\ ok <=> Succeeded
          /\ Succeeded => outcome.value = BoolValue(TRUE)
          /\ ~ok => (Failed /\ outcome.error # NoError)
C27_TrueWithNullAssertion ==
  /\ pc = "done"
  /\ req.op = "getAssertion"
  /\ Succeeded
  /\ outcome.value = BoolValue(TRUE)
  /\ platform.native = NullNative
  /\ platform.frees = 0

====
